---- MODULE Spec2Model ----
(***************************************************************************)
(* The resilience core of the weather gateway: the /weather handler        *)
(* (app/api/routes/weather.py), the circuit breaker                        *)
(* (app/middleware/circuit_breaker.py), the retrying upstream client       *)
(* (app/services/weatherstack.py), the cache (app/dependencies.py) and the *)
(* metrics registry (app/middleware/metrics.py).                           *)
(*                                                                         *)
(* The handlers are asyncio coroutines on one event loop: a handler runs   *)
(* without interleaving between two awaits.  The only awaits that yield    *)
(* are the upstream request (client.get) and the backoff asyncio.sleep,    *)
(* so one action is the code between two such points.                      *)
(***************************************************************************)
EXTENDS Integers, Sequences, FiniteSets, TLC

\* ------------------------------------------------------------------ bounds
\* Concurrent request handlers, requests started in one run, last clock value.
NumHandlers == 2
MaxRequests == 4
MaxTime == 4

\* Settings of app/config.py that the environment overrides; the model runs a
\* small configuration of them (the defaults are 5, 60 s, 300 s, 3600 s).
CIRCUIT_BREAKER_FAILURE_THRESHOLD == 2
CIRCUIT_BREAKER_RECOVERY_TIMEOUT == 2
CACHE_TTL_SECONDS == 1
STALE_CACHE_MAX_AGE_SECONDS == 2

\* CacheManager.maxsize, 1000 in the code: the model runs a small cache.
maxsize == 2

\* --------------------------------------------------------------- constants
\* CIRCUIT_BREAKER_FAILURE_RATE_THRESHOLD = 0.5, kept as the fraction 1/2.
FAILURE_RATE_THRESHOLD_NUM == 1
FAILURE_RATE_THRESHOLD_DEN == 2
RETRY_MAX_ATTEMPTS == 3
RETRY_BACKOFF_BASE == 1
max_recent_requests == 20
max_response_times == 1000
\* "len(self._cache) % 100 == 0": the period of the cleanup divides maxsize
\* (1000), so a put that fills the cache runs it.  The small cache keeps that
\* one multiple.
cleanup_period == maxsize

Handlers == 1..NumHandlers

\* ------------------------------------------------------------------ inputs
\* Raw values of the city query parameter, and what str.strip and
\* str.lower().strip() make of each of them.
RawCities == {"Paris", " paris", "  "}

Strip(s) ==
  CASE s = "Paris" -> "Paris"
    [] s = " paris" -> "paris"
    [] s = "paris" -> "paris"
    [] s = "Rome" -> "Rome"
    [] s = "rome" -> "rome"
    [] OTHER -> ""

Lower(s) ==
  CASE s = "Paris" -> "paris"
    [] s = "Rome" -> "rome"
    [] OTHER -> s

generate_key(city) == "weather:" \o Lower(city)

\* What one upstream request can come back with: a 2xx body without an
\* "error" member, a 2xx body with one (its code), a non-2xx status, a
\* timeout, a refused connection, another transport error, a body that is
\* not JSON.
\* The payloads are non-empty dicts (true in "if cached_response:").
Payloads == {"P1", "P2"}

Wire(kind, code, data) == [kind |-> kind, code |-> code, data |-> data]

Wires ==
  {Wire("ok", 200, p) : p \in Payloads}
    \cup {Wire("http", c, "") : c \in {401, 404, 429, 500}}
    \cup {Wire("body", c, "") : c \in {401, 404, 429, 615}}
    \cup {Wire(k, 0, "") : k \in {"timeout", "connect", "malformed"}}

\* -------------------------------------------------------------- exceptions
\* An exception: its class and its status_code (0 where the class has none).
\* Its message, a text for the log and the response detail, is left out.
Exc(cls, status, msg) == [cls |-> cls, status_code |-> status]

NoError == Exc("None", 0, "")

WeatherstackAPIError(msg) == Exc("WeatherstackAPIError", 500, msg)
WeatherstackNotFoundError == Exc("WeatherstackNotFoundError", 404, "City not found")
WeatherstackRateLimitError == Exc("WeatherstackRateLimitError", 429, "Rate limit exceeded")
WeatherstackAuthError == Exc("WeatherstackAuthError", 401, "Invalid API key")
\* Raised by CircuitBreaker.call and caught by get_weather's first except
\* clause; app/exceptions.py holds no class of this name, and the model reads
\* nothing of it but its class.
CircuitBreakerOpenError == Exc("CircuitBreakerOpenError", 0, "Circuit breaker is OPEN")

\* isinstance(e, WeatherstackAPIError): the three other classes derive from
\* WeatherstackException, not from WeatherstackAPIError.
IsWeatherstackAPIError(e) == e.cls = "WeatherstackAPIError"

IsWeatherstackException(e) ==
  e.cls \in {"WeatherstackAPIError", "WeatherstackNotFoundError",
             "WeatherstackRateLimitError", "WeatherstackAuthError"}

\* ---------------------------------------------------------- upstream client
\* _fetch_weather_once on one answer of the upstream: the data, or the
\* exception that leaves it (httpx's, json's, or one of the service's own).
fetch_weather_once(w) ==
  CASE w.kind = "timeout" -> [ok |-> FALSE, data |-> "", exc |-> Exc("TimeoutException", 0, "")]
    [] w.kind = "connect" -> [ok |-> FALSE, data |-> "", exc |-> Exc("ConnectError", 0, "")]
    [] w.kind = "request" -> [ok |-> FALSE, data |-> "", exc |-> Exc("RequestError", 0, "")]
    [] w.kind = "http" -> [ok |-> FALSE, data |-> "", exc |-> Exc("HTTPStatusError", w.code, "")]
    [] w.kind = "malformed" -> [ok |-> FALSE, data |-> "", exc |-> Exc("JSONDecodeError", 0, "")]
    [] w.kind = "body" ->
         [ok |-> FALSE, data |-> "",
          exc |-> CASE w.code = 404 -> WeatherstackNotFoundError
                    [] w.code = 401 -> WeatherstackAuthError
                    [] w.code = 429 -> WeatherstackRateLimitError
                    [] OTHER -> WeatherstackAPIError("Weatherstack API error")]
    [] OTHER -> [ok |-> TRUE, data |-> w.data, exc |-> NoError]

is_retryable_error(e) ==
  CASE e.cls = "WeatherstackAuthError" -> FALSE
    [] e.cls = "WeatherstackNotFoundError" -> FALSE
    [] e.cls = "WeatherstackRateLimitError" -> FALSE
    [] e.cls = "TimeoutException" -> TRUE
    [] e.cls = "ConnectError" -> TRUE
    [] e.cls = "RequestError" -> TRUE
    [] IsWeatherstackAPIError(e) -> TRUE
    [] OTHER -> FALSE

\* The except clauses of get_current_weather, in their order, on the
\* exception e of one attempt: either an exception leaves the executor at
\* once (raise), or last_error is set and the loop goes on.
handle_attempt_error(e) ==
  CASE e.cls = "HTTPStatusError" ->
         CASE e.status_code = 401 -> [raise |-> TRUE, err |-> WeatherstackAuthError]
           [] e.status_code = 404 -> [raise |-> TRUE, err |-> WeatherstackNotFoundError]
           [] e.status_code = 429 -> [raise |-> TRUE, err |-> WeatherstackRateLimitError]
           [] OTHER ->
                [raise |-> ~is_retryable_error(WeatherstackAPIError("HTTP error")),
                 err |-> WeatherstackAPIError("HTTP error")]
    [] e.cls = "TimeoutException" ->
         [raise |-> FALSE, err |-> WeatherstackAPIError("Request timeout")]
    [] e.cls = "ConnectError" ->
         [raise |-> FALSE, err |-> WeatherstackAPIError("Connection error")]
    [] e.cls = "RequestError" ->
         [raise |-> FALSE, err |-> WeatherstackAPIError("Request error")]
    [] IsWeatherstackAPIError(e) ->
         [raise |-> ~is_retryable_error(e), err |-> e]
    [] OTHER ->
         [raise |-> FALSE, err |-> WeatherstackAPIError("Unexpected error")]

\* The backoff with the exponent one too high: base * 2 ** (attempt - 1).
wait_time_doubled(attempt) == RETRY_BACKOFF_BASE * (2 ^ (attempt - 1))

\* wait_time before attempt number `attempt` (> 1): base * 2 ** (attempt - 2).
wait_time(attempt) == RETRY_BACKOFF_BASE * (2 ^ (attempt - 2))

\* --------------------------------------------------------- circuit breaker
\* opened_at: None, or a time.time() value.
NoTime == [set |-> FALSE, at |-> 0]
At(t) == [set |-> TRUE, at |-> t]
\* Python's truth of "self.opened_at": None and 0.0 are false.
Truthy(ts) == ts.set /\ ts.at # 0

append_recent(recent, outcome) ==
  LET r == Append(recent, outcome)
  IN IF Len(r) > max_recent_requests THEN Tail(r) ELSE r

calculate_failure_rate_reached(recent) ==
  \* failures / len(recent) >= failure_rate_threshold, and 0.0 on no requests
  LET failures == Cardinality({i \in 1..Len(recent) : ~recent[i]})
  IN IF recent = <<>>
       THEN 0 >= FAILURE_RATE_THRESHOLD_NUM
       ELSE failures * FAILURE_RATE_THRESHOLD_DEN >= FAILURE_RATE_THRESHOLD_NUM * Len(recent)

\* _should_attempt_request with the recovery timeout compared by > where the
\* code has >=.
should_attempt_request_late(b, t) ==
  CASE b.state = "closed" -> [ok |-> TRUE, b |-> b]
    [] b.state = "open" ->
         IF Truthy(b.opened_at) /\ (t - b.opened_at.at) > CIRCUIT_BREAKER_RECOVERY_TIMEOUT
           THEN [ok |-> TRUE, b |-> [b EXCEPT !.state = "half_open"]]
           ELSE [ok |-> FALSE, b |-> b]
    [] b.state = "half_open" -> [ok |-> TRUE, b |-> b]
    [] OTHER -> [ok |-> FALSE, b |-> b]

\* _should_attempt_request at time t: the verdict and the breaker after it.
should_attempt_request(b, t) ==
  CASE b.state = "closed" -> [ok |-> TRUE, b |-> b]
    [] b.state = "open" ->
         IF Truthy(b.opened_at) /\ (t - b.opened_at.at) >= CIRCUIT_BREAKER_RECOVERY_TIMEOUT
           THEN [ok |-> TRUE, b |-> [b EXCEPT !.state = "half_open"]]
           ELSE [ok |-> FALSE, b |-> b]
    [] b.state = "half_open" -> [ok |-> TRUE, b |-> b]
    [] OTHER -> [ok |-> FALSE, b |-> b]

\* _record_success that closes the breaker from OPEN as it does from HALF_OPEN.
record_success_closes_open(b, t) ==
  LET b1 == [b EXCEPT !.successes = @ + 1, !.recent = append_recent(@, TRUE)]
  IN IF b.state \in {"half_open", "open"}
       THEN [b1 EXCEPT !.state = "closed", !.opened_at = NoTime, !.failures = 0]
       ELSE b1

\* _record_success whose HALF_OPEN branch forgets "self.stats.failures = 0".
record_success_keeps_failures(b, t) ==
  LET b1 == [b EXCEPT !.successes = @ + 1, !.recent = append_recent(@, TRUE)]
  IN IF b.state = "half_open"
       THEN [b1 EXCEPT !.state = "closed", !.opened_at = NoTime]
       ELSE b1

\* _record_success whose HALF_OPEN branch forgets "self.opened_at = None".
record_success_keeps_opened_at(b, t) ==
  LET b1 == [b EXCEPT !.successes = @ + 1, !.recent = append_recent(@, TRUE)]
  IN IF b.state = "half_open"
       THEN [b1 EXCEPT !.state = "closed", !.failures = 0]
       ELSE b1

record_success(b, t) ==
  LET b1 == [b EXCEPT !.successes = @ + 1, !.recent = append_recent(@, TRUE)]
  IN IF b.state = "half_open"
       THEN [b1 EXCEPT !.state = "closed", !.opened_at = NoTime, !.failures = 0]
       ELSE b1

\* _record_failure run once for each of two failed attempts of one call, as
\* it would be with the breaker inside the retry loop.
record_failure_per_attempt(b, t) ==
  LET b1 == [b EXCEPT !.failures = @ + 2,
                      !.recent = append_recent(append_recent(@, FALSE), FALSE)]
  IN CASE b.state = "closed" ->
            IF b1.failures >= CIRCUIT_BREAKER_FAILURE_THRESHOLD
               \/ calculate_failure_rate_reached(b1.recent)
              THEN [b |-> [b1 EXCEPT !.state = "open", !.opened_at = At(t)], opened |-> TRUE]
              ELSE [b |-> b1, opened |-> FALSE]
       [] b.state = "half_open" ->
            [b |-> [b1 EXCEPT !.state = "open", !.opened_at = At(t)], opened |-> FALSE]
       [] OTHER -> [b |-> b1, opened |-> FALSE]

\* _record_failure that calls record_circuit_breaker_open() in its HALF_OPEN
\* branch too.
record_failure_counts_reopen(b, t) ==
  LET b1 == [b EXCEPT !.failures = @ + 1, !.recent = append_recent(@, FALSE)]
  IN CASE b.state = "closed" ->
            IF b1.failures >= CIRCUIT_BREAKER_FAILURE_THRESHOLD
               \/ calculate_failure_rate_reached(b1.recent)
              THEN [b |-> [b1 EXCEPT !.state = "open", !.opened_at = At(t)], opened |-> TRUE]
              ELSE [b |-> b1, opened |-> FALSE]
       [] b.state = "half_open" ->
            [b |-> [b1 EXCEPT !.state = "open", !.opened_at = At(t)], opened |-> TRUE]
       [] OTHER -> [b |-> b1, opened |-> FALSE]

\* _record_failure at time t: the breaker after it, and whether
\* record_circuit_breaker_open() was called.
record_failure(b, t) ==
  LET b1 == [b EXCEPT !.failures = @ + 1, !.recent = append_recent(@, FALSE)]
  IN CASE b.state = "closed" ->
            IF b1.failures >= CIRCUIT_BREAKER_FAILURE_THRESHOLD
               \/ calculate_failure_rate_reached(b1.recent)
              THEN [b |-> [b1 EXCEPT !.state = "open", !.opened_at = At(t)], opened |-> TRUE]
              ELSE [b |-> b1, opened |-> FALSE]
       [] b.state = "half_open" ->
            [b |-> [b1 EXCEPT !.state = "open", !.opened_at = At(t)], opened |-> FALSE]
       [] OTHER -> [b |-> b1, opened |-> FALSE]

InitBreaker ==
  [state |-> "closed", failures |-> 0, successes |-> 0,
   opened_at |-> NoTime, recent |-> <<>>]

\* ------------------------------------------------------------------- cache
\* self._cache, a dict in insertion order: a sequence of entries, one per key.
NoData == "None"

IndexOf(c, key) ==
  IF \E i \in 1..Len(c) : c[i].key = key
    THEN CHOOSE i \in 1..Len(c) : c[i].key = key
    ELSE 0

Remove(c, i) == [j \in 1..(Len(c) - 1) |-> IF j < i THEN c[j] ELSE c[j + 1]]

Keys(c) == {c[i].key : i \in 1..Len(c)}

NoMetadata ==
  [cached |-> FALSE, stale |-> FALSE, age_seconds |-> 0, source |-> "none"]

\* CacheManager.get that compares the age by < where the code has <=.
cache_get_strict(c, key, t) ==
  LET i == IndexOf(c, key)
  IN IF i # 0 /\ (t - c[i].timestamp) < CACHE_TTL_SECONDS THEN c[i].data ELSE NoData

\* CacheManager.get at time t: the fresh data, or None.
cache_get(c, key, t) ==
  LET i == IndexOf(c, key)
  IN IF i # 0 /\ (t - c[i].timestamp) <= CACHE_TTL_SECONDS THEN c[i].data ELSE NoData

entry_metadata(age) ==
  [cached |-> TRUE, stale |-> age > CACHE_TTL_SECONDS, age_seconds |-> age,
   source |-> IF age > CACHE_TTL_SECONDS THEN "cache_fallback" ELSE "cache"]

cache_get_with_metadata(c, key, t) ==
  LET i == IndexOf(c, key)
  IN IF i # 0 /\ (t - c[i].timestamp) <= STALE_CACHE_MAX_AGE_SECONDS
       THEN [data |-> c[i].data, metadata |-> entry_metadata(t - c[i].timestamp)]
       ELSE [data |-> NoData, metadata |-> NoMetadata]

\* CacheManager.get_stale without its test of the age against the stale
\* max age.
cache_get_stale_unbounded(c, key, t) ==
  LET i == IndexOf(c, key)
  IN IF i # 0
       THEN [data |-> c[i].data, metadata |-> entry_metadata(t - c[i].timestamp)]
       ELSE [data |-> NoData, metadata |-> NoMetadata]

cache_get_stale(c, key, t) ==
  LET i == IndexOf(c, key)
  IN IF i # 0 /\ (t - c[i].timestamp) <= STALE_CACHE_MAX_AGE_SECONDS
       THEN [data |-> c[i].data, metadata |-> entry_metadata(t - c[i].timestamp)]
       ELSE [data |-> NoData, metadata |-> NoMetadata]

\* _evict_if_needed that tests the size by > where the code has >=.
evict_if_needed_late(c) ==
  IF Len(c) > maxsize
    THEN LET oldest == CHOOSE i \in 1..Len(c) :
                         /\ \A j \in 1..Len(c) : c[i].timestamp <= c[j].timestamp
                         /\ \A j \in 1..(i - 1) : c[j].timestamp > c[i].timestamp
         IN Remove(c, oldest)
    ELSE c

\* _evict_if_needed: min() over the keys returns the first of the oldest.
evict_if_needed(c) ==
  IF Len(c) >= maxsize
    THEN LET oldest == CHOOSE i \in 1..Len(c) :
                         /\ \A j \in 1..Len(c) : c[i].timestamp <= c[j].timestamp
                         /\ \A j \in 1..(i - 1) : c[j].timestamp > c[i].timestamp
         IN Remove(c, oldest)
    ELSE c

cleanup_expired(c, t) ==
  SelectSeq(c, LAMBDA e : ~((t - e.timestamp) > STALE_CACHE_MAX_AGE_SECONDS))

\* CacheManager.set at time t.
\* set that leaves the entry of a key already present as it is.
cache_set_keeps_first(c, key, value, t) ==
  LET c1 == evict_if_needed(c)
      e == [key |-> key, data |-> value, timestamp |-> t]
      i == IndexOf(c1, key)
      c2 == IF i # 0 THEN c1 ELSE Append(c1, e)
  IN IF Len(c2) % cleanup_period = 0 THEN cleanup_expired(c2, t) ELSE c2

cache_set(c, key, value, t) ==
  LET c1 == evict_if_needed(c)
      e == [key |-> key, data |-> value, timestamp |-> t]
      i == IndexOf(c1, key)
      c2 == IF i # 0 THEN [c1 EXCEPT ![i] = e] ELSE Append(c1, e)
  IN IF Len(c2) % cleanup_period = 0 THEN cleanup_expired(c2, t) ELSE c2

\* ----------------------------------------------------------------- metrics
ErrorTypes ==
  {"WeatherstackAPIError", "WeatherstackNotFoundError", "WeatherstackRateLimitError",
   "WeatherstackAuthError", "circuit_breaker_open", "unexpected_error"}

InitMetrics ==
  [api_requests_total |-> 0, api_errors_total |-> 0, api_timeouts_total |-> 0,
   cache_hits_total |-> 0, cache_misses_total |-> 0,
   stale_cache_fallbacks_total |-> 0, circuit_breaker_opens_total |-> 0,
   retry_attempts_total |-> 0,
   errors_by_type |-> [k \in ErrorTypes |-> 0],
   response_times |-> 0]

record_request(m) == [m EXCEPT !.api_requests_total = @ + 1]
\* record_error that loses the update of the per-type count.
record_error_untyped(m, type) == [m EXCEPT !.api_errors_total = @ + 1]
record_error(m, type) ==
  [m EXCEPT !.api_errors_total = @ + 1, !.errors_by_type[type] = @ + 1]
\* record_cache_hit that counts the hit twice.
record_cache_hit_twice(m) == [m EXCEPT !.cache_hits_total = @ + 2]
record_cache_hit(m) == [m EXCEPT !.cache_hits_total = @ + 1]
record_cache_miss(m) == [m EXCEPT !.cache_misses_total = @ + 1]
record_stale_cache_fallback(m) == [m EXCEPT !.stale_cache_fallbacks_total = @ + 1]
record_circuit_breaker_open(m) == [m EXCEPT !.circuit_breaker_opens_total = @ + 1]
\* response_times is kept as the number of samples it holds: the samples are
\* read by the percentiles of /metrics alone.
record_response_time(m, d) ==
  [m EXCEPT !.response_times = IF @ + 1 > max_response_times THEN @ ELSE @ + 1]

\* ------------------------------------------------------------------- state
VARIABLES
  breaker,   \* the CircuitBreaker singleton: state, stats.failures, stats.successes, opened_at, _recent_requests
  cache,     \* CacheManager._cache
  metrics,   \* the Metrics singleton
  now,       \* time.time()
  req,       \* per handler: where its get_weather coroutine stands, and its locals
  started,   \* requests received so far
  upstream,  \* the upstream's answer taken in the latest step, if it took one
  sent,      \* the latest response sent to a client, and the request it answers
  removed    \* the keys whose entries the latest step deleted from the cache

vars == <<breaker, cache, metrics, now, req, started, upstream, sent, removed>>

NoWire == Wire("none", 0, "")

Idle ==
  [pc |-> "idle", key |-> "", start_time |-> 0, attempt |-> 0,
   last_error |-> NoError, wake_at |-> 0]

\* _build_response: the metadata dict gains circuit_breaker_state.
build_response(data, metadata, b) ==
  [status |-> 200, data |-> data,
   metadata |-> [k \in (DOMAIN metadata) \cup {"circuit_breaker_state"} |->
                   IF k = "circuit_breaker_state" THEN b.state ELSE metadata[k]]]

http_exception(status) == [status |-> status, data |-> NoData, metadata |-> NoMetadata]

ApiMetadata ==
  [cached |-> FALSE, stale |-> FALSE, age_seconds |-> 0, source |-> "api",
   retry_attempts |-> 0]

\* A response sent: the key of its request, the upstream requests issued for
\* it, the exception that left circuit_breaker.call (if one did), the response.
Sent(key, attempts, raised, response) ==
  [key |-> key, attempts |-> attempts, raised |-> raised, response |-> response]

\* The except clauses without their "metrics.record_stale_cache_fallback()".
route_except_uncounted(m, c, b, key, e, start_time, t) ==
  LET type == CASE e.cls = "CircuitBreakerOpenError" -> "circuit_breaker_open"
                [] IsWeatherstackException(e) -> e.cls
                [] OTHER -> "unexpected_error"
      status == CASE e.cls = "CircuitBreakerOpenError" -> 503
                  [] IsWeatherstackException(e) -> e.status_code
                  [] OTHER -> 500
      m1 == record_error(m, type)
      stale == cache_get_stale(c, key, t)
  IN IF stale.data # NoData
       THEN [metrics |-> record_response_time(m1, t - start_time),
             response |-> build_response(stale.data, stale.metadata, b)]
       ELSE [metrics |-> record_response_time(m1, t - start_time),
             response |-> http_exception(status)]

\* The except clauses without the record_response_time of their branch with
\* no stale entry.
route_except_untimed(m, c, b, key, e, start_time, t) ==
  LET type == CASE e.cls = "CircuitBreakerOpenError" -> "circuit_breaker_open"
                [] IsWeatherstackException(e) -> e.cls
                [] OTHER -> "unexpected_error"
      status == CASE e.cls = "CircuitBreakerOpenError" -> 503
                  [] IsWeatherstackException(e) -> e.status_code
                  [] OTHER -> 500
      m1 == record_error(m, type)
      stale == cache_get_stale(c, key, t)
  IN IF stale.data # NoData
       THEN [metrics |-> record_response_time(record_stale_cache_fallback(m1), t - start_time),
             response |-> build_response(stale.data, stale.metadata, b)]
       ELSE [metrics |-> m1,
             response |-> http_exception(status)]

\* The three except clauses of get_weather on the exception e that left
\* circuit_breaker.call: the metrics after them and the response.
route_except(m, c, b, key, e, start_time, t) ==
  LET type == CASE e.cls = "CircuitBreakerOpenError" -> "circuit_breaker_open"
                [] IsWeatherstackException(e) -> e.cls
                [] OTHER -> "unexpected_error"
      status == CASE e.cls = "CircuitBreakerOpenError" -> 503
                  [] IsWeatherstackException(e) -> e.status_code
                  [] OTHER -> 500
      m1 == record_error(m, type)
      stale == cache_get_stale(c, key, t)
  IN IF stale.data # NoData
       THEN [metrics |-> record_response_time(record_stale_cache_fallback(m1), t - start_time),
             response |-> build_response(stale.data, stale.metadata, b)]
       ELSE [metrics |-> record_response_time(m1, t - start_time),
             response |-> http_exception(status)]

Init ==
  /\ breaker = InitBreaker
  /\ cache = <<>>
  /\ metrics = InitMetrics
  /\ now = 1
  /\ req = [h \in Handlers |-> Idle]
  /\ started = 0
  /\ upstream = NoWire
  /\ sent = Sent("", 0, NoError, http_exception(0))
  /\ removed = {}

\* ----------------------------------------------------------------- actions
\* get_weather from its entry to its first await (the first upstream
\* request) or, when it never gets there, to its response.  The request is
\* taken by the first handler that runs no coroutine.
\* The fresh path reads the clock in cache.get and again in
\* get_with_metadata: dt is what the clock advanced between the two.
ClockAdvances == {0, 1}

Start(h, raw, dt) ==
  /\ req[h].pc = "idle"
  /\ \A g \in 1..(h - 1) : req[g].pc # "idle"
  /\ started < MaxRequests
  /\ started' = started + 1
  /\ now + dt <= MaxTime
  /\ now' = now + dt
  /\ upstream' = NoWire
  /\ removed' = {}
  /\ LET city == Strip(raw)
         key == generate_key(city)
         cached == cache_get(cache, key, now)
         m1 == record_request(record_cache_miss(metrics))
         adm == should_attempt_request(breaker, now)
         out == route_except(m1, cache, breaker, key, CircuitBreakerOpenError, now, now)
     IN CASE city = "" ->
               /\ dt = 0
               /\ sent' = Sent("", 0, NoError, http_exception(400))
               /\ UNCHANGED <<breaker, cache, metrics, req>>
          [] city # "" /\ cached # NoData ->
               /\ metrics' = record_response_time(record_cache_hit(metrics), 0)
               /\ sent' = Sent(key, 0, NoError,
                               build_response(cached,
                                              cache_get_with_metadata(cache, key, now + dt).metadata,
                                              breaker))
               /\ UNCHANGED <<breaker, cache, req>>
          [] city # "" /\ cached = NoData /\ ~adm.ok ->
               /\ dt = 0
               /\ metrics' = out.metrics
               /\ sent' = Sent(key, 0, CircuitBreakerOpenError, out.response)
               /\ UNCHANGED <<breaker, cache, req>>
          [] OTHER ->
               /\ dt = 0
               /\ metrics' = m1
               /\ breaker' = adm.b
               /\ req' = [req EXCEPT ![h] = [Idle EXCEPT !.pc = "fetching", !.key = key,
                                                           !.start_time = now, !.attempt = 1]]
               /\ UNCHANGED <<cache, sent>>

\* The exception e leaves get_current_weather, so circuit_breaker.call
\* records a failure and get_weather answers from its except clause.
Raise(h, e) ==
  LET rec == record_failure(breaker, now)
      m1 == IF rec.opened THEN record_circuit_breaker_open(metrics) ELSE metrics
      out == route_except(m1, cache, rec.b, req[h].key, e, req[h].start_time, now)
  IN /\ breaker' = rec.b
     /\ metrics' = out.metrics
     /\ sent' = Sent(req[h].key, req[h].attempt, e, out.response)
     /\ req' = [req EXCEPT ![h] = Idle]
     /\ UNCHANGED cache

\* The upstream answers the request in flight with w: the handler runs from
\* the await of client.get to its next await (the backoff sleep) or to its
\* response.
Reply(h, w) ==
  /\ req[h].pc = "fetching"
  /\ upstream' = w
  /\ UNCHANGED <<now, started>>
  /\ LET got == fetch_weather_once(w)
         hd == handle_attempt_error(got.exc)
     IN CASE got.ok ->
               /\ breaker' = record_success(breaker, now)
               /\ cache' = cache_set(cache, req[h].key, got.data, now)
               /\ metrics' = record_response_time(metrics, now - req[h].start_time)
               /\ sent' = Sent(req[h].key, req[h].attempt, NoError,
                               build_response(got.data, ApiMetadata,
                                              record_success(breaker, now)))
               /\ req' = [req EXCEPT ![h] = Idle]
          [] ~got.ok /\ hd.raise -> Raise(h, hd.err)
          [] ~got.ok /\ ~hd.raise /\ req[h].attempt < RETRY_MAX_ATTEMPTS ->
               /\ req' = [req EXCEPT ![h] =
                            [@ EXCEPT !.pc = "sleeping", !.last_error = hd.err,
                                      !.attempt = @ + 1,
                                      !.wake_at = now + wait_time(req[h].attempt + 1)]]
               /\ UNCHANGED <<breaker, cache, metrics, sent>>
          [] OTHER -> Raise(h, hd.err)
  /\ removed' = Keys(cache) \ Keys(cache')

\* asyncio.sleep(wait_time) is over: the next attempt's request goes out.
Wake(h) ==
  /\ req[h].pc = "sleeping"
  /\ now >= req[h].wake_at
  /\ req' = [req EXCEPT ![h].pc = "fetching"]
  /\ upstream' = NoWire
  /\ removed' = {}
  /\ UNCHANGED <<breaker, cache, metrics, now, started, sent>>

Tick ==
  /\ now < MaxTime
  /\ now' = now + 1
  /\ upstream' = NoWire
  /\ removed' = {}
  /\ UNCHANGED <<breaker, cache, metrics, req, started, sent>>

Next ==
  \/ \E h \in Handlers, raw \in RawCities, dt \in ClockAdvances : Start(h, raw, dt)
  \/ \E h \in Handlers, w \in Wires : Reply(h, w)
  \/ \E h \in Handlers : Wake(h)
  \/ Tick

Spec == Init /\ [][Next]_vars

\* ------------------------------------------------------------ cancellation
\* The task that runs handler h is cancelled while it awaits client.get
\* (weatherstack.py:65) or asyncio.sleep (weatherstack.py:119):
\* asyncio.CancelledError derives from BaseException, so none of the "except
\* Exception" clauses of get_current_weather, CircuitBreaker.call and
\* get_weather catches it, and the coroutine ends with nothing recorded.
\* Cancel_recorded is the same with CancelledError caught by the "except
\* Exception" of CircuitBreaker.call.
Cancel_recorded(h) ==
  /\ req[h].pc \in {"fetching", "sleeping"}
  /\ req' = [req EXCEPT ![h] = Idle]
  /\ breaker' = record_failure(breaker, now).b
  /\ upstream' = NoWire
  /\ removed' = {}
  /\ UNCHANGED <<cache, metrics, now, started, sent>>

Cancel(h) ==
  /\ req[h].pc \in {"fetching", "sleeping"}
  /\ req' = [req EXCEPT ![h] = Idle]
  /\ upstream' = NoWire
  /\ removed' = {}
  /\ UNCHANGED <<breaker, cache, metrics, now, started, sent>>

NextWithCancel ==
  \/ Next
  \/ \E h \in Handlers : Cancel(h)

SpecWithCancel == Init /\ [][NextWithCancel]_vars

\* ---------------------------------------------------------------- recovery
\* The upstream has recovered: from this time on every request to it
\* succeeds. It is the latest time that leaves a breaker opened before it a
\* whole recovery timeout of clock.
Healed == now > MaxTime - CIRCUIT_BREAKER_RECOVERY_TIMEOUT

\* A request that names a city arrives.
LiveStart(h, raw, dt) == Strip(raw) # "" /\ Start(h, raw, dt)

\* The upstream answers, with success once it has recovered.
LiveReply(h, w) == (Healed => w.kind = "ok") /\ Reply(h, w)

LiveNext ==
  \/ \E h \in Handlers, raw \in RawCities, dt \in ClockAdvances : LiveStart(h, raw, dt)
  \/ \E h \in Handlers, w \in Wires : LiveReply(h, w)
  \/ \E h \in Handlers : Wake(h)
  \/ Tick

\* Time advances, requests keep arriving, the upstream answers every request
\* and every sleep ends.
Fairness ==
  /\ WF_vars(Tick)
  /\ WF_vars(\E h \in Handlers, raw \in RawCities, dt \in ClockAdvances :
               LiveStart(h, raw, dt))
  /\ WF_vars(\E h \in Handlers, w \in Wires : LiveReply(h, w))
  /\ WF_vars(\E h \in Handlers : Wake(h))

LiveSpec == Init /\ [][LiveNext]_vars /\ Fairness

\* ------------------------------------------------------- the cache by itself
\* The cache under the puts of answered requests for several cities: the
\* keys that generate_key makes of them, cache.set at the instant of the
\* answer (weather.py:98), the clock advancing in between.
CacheKeys == {generate_key(city) : city \in {"paris", "rome", "oslo", "lima"}}

Set(key, value) ==
  /\ cache' = cache_set(cache, key, value, now)
  /\ upstream' = Wire("ok", 200, value)
  /\ removed' = Keys(cache) \ Keys(cache')
  /\ UNCHANGED <<breaker, metrics, now, req, started, sent>>

CacheNext ==
  \/ \E key \in CacheKeys, value \in Payloads : Set(key, value)
  \/ Tick

CacheSpec == Init /\ [][CacheNext]_vars

\* ------------------------------------------------------------ step shapes
\* Handler h's call went through the breaker's admission and its first
\* upstream request is out.
Admitted(h) == req[h].pc = "idle" /\ req'[h].pc = "fetching"
\* Handler h took the upstream's answer to its request in flight.
Replied(h) == req[h].pc = "fetching" /\ req'[h].pc # "fetching" /\ upstream' # NoWire
\* Handler h's call through the breaker reached its verdict and was answered.
Completed(h) == req[h].pc = "fetching" /\ req'[h].pc = "idle" /\ upstream' # NoWire
\* circuit_breaker.call was called (record_request precedes it, and nothing else).
CallMade == metrics'.api_requests_total = metrics.api_requests_total + 1

SuccessRecorded == breaker'.successes = breaker.successes + 1
FailureRecorded == breaker'.failures = breaker.failures + 1

\* The error kinds the upstream's answer stands for: Auth, NotFound and
\* RateLimited come as an HTTP status or as the error code of a 2xx body.
ClientVerdict(w) == w.kind \in {"http", "body"} /\ w.code \in {401, 404, 429}

ErrorOfCode(code) ==
  CASE code = 404 -> WeatherstackNotFoundError
    [] code = 401 -> WeatherstackAuthError
    [] code = 429 -> WeatherstackRateLimitError
    [] OTHER -> NoError

\* The failures at the end of the recent outcomes: the consecutive failures.
TrailingFailures(recent) ==
  Cardinality({k \in 1..Len(recent) :
                 \A j \in (Len(recent) - k + 1)..Len(recent) : ~recent[j]})

\* ------------------------------------------------------------------ claims
\* C1: a call through the breaker that ends in NotFound or Auth while the
\* breaker is Closed leaves it Closed and does not raise its failure count.
C1_ClientErrorsLeaveBreakerClosed ==
  [][\A h \in Handlers :
       (/\ Completed(h)
        /\ sent'.raised.cls \in {"WeatherstackNotFoundError", "WeatherstackAuthError"}
        /\ breaker.state = "closed")
       => (breaker'.state = "closed" /\ breaker'.failures <= breaker.failures)]_vars

\* C2: an attempt that the upstream answers with Auth, NotFound or
\* RateLimited (by status or by in-body code) is followed by no other
\* attempt: the executor returns at once with that error.
C2_ClientVerdictNeverRetried ==
  [][\A h \in Handlers :
       (Replied(h) /\ ClientVerdict(upstream'))
       => (req'[h].pc = "idle" /\ sent'.raised = ErrorOfCode(upstream'.code))]_vars

\* C3: a request whose last upstream answer carries the in-body error code
\* 401, 404 or 429 ends with the error of that kind; with no cache entry for
\* its key and the breaker Closed, the response has that HTTP status and the
\* breaker stays Closed.
C3_InBodyCodeSurfacedAsItsKind ==
  [][\A h \in Handlers :
       (Completed(h) /\ upstream'.kind = "body" /\ upstream'.code \in {401, 404, 429})
       => /\ sent'.raised = ErrorOfCode(upstream'.code)
          /\ (IndexOf(cache, req[h].key) = 0 /\ breaker.state = "closed")
             => (sent'.response.status = upstream'.code /\ breaker'.state = "closed")]_vars

\* C4: a request whose upstream call ends in NotFound or Auth is answered
\* 404 or 401, and no stale fallback is recorded for it.
C4_NoStaleFallbackOnNotFoundOrAuth ==
  [][\A h \in Handlers :
       (/\ Completed(h)
        /\ sent'.raised.cls \in {"WeatherstackNotFoundError", "WeatherstackAuthError"})
       => /\ sent'.response.status = sent'.raised.status_code
          /\ metrics'.stale_cache_fallbacks_total = metrics.stale_cache_fallbacks_total]_vars

\* C5: a failure recorded while the breaker is Closed and the ring holds
\* fewer than 5 outcomes opens the breaker only when the failure count has
\* reached failure_threshold.
C5_RateTriggerInhibitedUnderFiveSamples ==
  [][(/\ breaker.state = "closed"
      /\ FailureRecorded
      /\ Len(breaker'.recent) < 5
      /\ breaker'.state = "open")
     => breaker'.failures >= CIRCUIT_BREAKER_FAILURE_THRESHOLD]_vars

\* C6: the breaker moves from Closed to Open at the recording of the
\* failure_threshold-th consecutive failure.
C6_OpensAtThresholdthConsecutiveFailure ==
  [][(breaker.state = "closed" /\ breaker'.state = "open")
     => TrailingFailures(breaker'.recent) = CIRCUIT_BREAKER_FAILURE_THRESHOLD]_vars

\* C7: a success recorded while the breaker is Closed leaves the failure
\* count at 0.
C7_SuccessInClosedResetsFailures ==
  [][(breaker.state = "closed" /\ SuccessRecorded) => breaker'.failures = 0]_vars

\* C8: while the breaker is Open, a call made before recovery_timeout has
\* passed since opened_at is rejected with CircuitBreakerOpenError, starts no
\* upstream request and leaves the breaker as it is; a call made at or after
\* it moves the breaker to HalfOpen and goes to the upstream; and the breaker
\* leaves Open in no other way.
C8_OpenAdmission ==
  [][/\ (CallMade /\ breaker.state = "open")
        => IF now - breaker.opened_at.at < CIRCUIT_BREAKER_RECOVERY_TIMEOUT
             THEN /\ breaker' = breaker
                  /\ req' = req
                  /\ sent'.raised = CircuitBreakerOpenError
                  /\ sent'.attempts = 0
             ELSE /\ breaker'.state = "half_open"
                  /\ \E h \in Handlers : Admitted(h) /\ req'[h].attempt = 1
     /\ (breaker.state = "open" /\ breaker'.state # "open")
        => /\ breaker'.state = "half_open"
           /\ now - breaker.opened_at.at >= CIRCUIT_BREAKER_RECOVERY_TIMEOUT
           /\ CallMade
           /\ \E h \in Handlers : Admitted(h)]_vars

\* A call was rejected while the breaker was Open, and a later one, made
\* recovery_timeout after opened_at, is at the upstream with the breaker HalfOpen.
C8_Witness ==
  /\ breaker.state = "half_open"
  /\ sent.raised = CircuitBreakerOpenError
  /\ \E h \in Handlers :
       /\ req[h].pc = "fetching"
       /\ req[h].start_time - breaker.opened_at.at >= CIRCUIT_BREAKER_RECOVERY_TIMEOUT

\* C9: in HalfOpen a recorded success closes the breaker, with the failure
\* count 0 and opened_at None; a recorded failure opens it again with
\* opened_at the current time.
C9_HalfOpenVerdict ==
  [][breaker.state = "half_open"
     => /\ SuccessRecorded
           => (/\ breaker'.state = "closed"
               /\ breaker'.failures = 0
               /\ breaker'.opened_at = NoTime)
        /\ FailureRecorded
           => (breaker'.state = "open" /\ breaker'.opened_at = At(now))]_vars

\* The breaker opened on a failure and the probe admitted in HalfOpen
\* succeeded: it is Closed again.
C9_Witness ==
  /\ breaker.state = "closed"
  /\ breaker.recent = <<FALSE, TRUE>>
  /\ breaker.failures = 0
  /\ breaker.opened_at = NoTime

\* C10: while the breaker is HalfOpen (its probe in flight), no other call
\* is admitted to the upstream.
C10_OneProbeInHalfOpen ==
  [][breaker.state = "half_open" => \A h \in Handlers : ~Admitted(h)]_vars

\* C11: in every reachable state, whatever the interleaving of the calls,
\* opened_at is set exactly when the breaker is Open or HalfOpen, and None
\* exactly when it is Closed.
C11_OpenedAtSetIffNotClosed ==
  /\ breaker.state \in {"closed", "open", "half_open"}
  /\ breaker.opened_at.set <=> breaker.state \in {"open", "half_open"}
  /\ breaker.opened_at = NoTime <=> breaker.state = "closed"

\* Two calls are in flight at once while the breaker, opened and closed again
\* before, is HalfOpen with opened_at set.
C11_Witness ==
  /\ breaker.state = "half_open"
  /\ breaker.opened_at.set
  /\ breaker.successes > 0
  /\ \A h \in Handlers : req[h].pc # "idle"

\* circuit_breaker.call was called and _should_attempt_request refused it.
Rejected == CallMade /\ ~should_attempt_request(breaker, now).ok

RateLimited(w) == w.kind \in {"http", "body"} /\ w.code = 429
Transient(w) ==
  \/ w.kind \in {"timeout", "connect", "malformed"}
  \/ (w.kind = "http" /\ w.code >= 500)

\* Metadata that tells the client the data is older than the fresh window.
Degraded(metadata) == metadata.stale \/ metadata.source = "cache_fallback"

\* C13: a request whose upstream call ends in RateLimited, Transport,
\* Timeout, ServerError or Malformed is answered 200 with the cached payload,
\* degraded metadata and one more stale fallback counted when the cache holds
\* an entry for its key of age <= stale_max_age; with no such entry a
\* RateLimited ending is answered 429.
C13_UpstreamErrorServedStaleOr429 ==
  [][\A h \in Handlers :
       (Completed(h) /\ (RateLimited(upstream') \/ Transient(upstream')))
       => LET i == IndexOf(cache, req[h].key)
              age == now - cache[i].timestamp
          IN /\ (i # 0 /\ age <= STALE_CACHE_MAX_AGE_SECONDS)
                => /\ sent'.response.status = 200
                   /\ sent'.response.data = cache[i].data
                   /\ Degraded(sent'.response.metadata)
                   /\ metrics'.stale_cache_fallbacks_total
                        = metrics.stale_cache_fallbacks_total + 1
             /\ ((i = 0 \/ age > STALE_CACHE_MAX_AGE_SECONDS) /\ RateLimited(upstream'))
                => sent'.response.status = 429]_vars

\* C14: with no cache entry of age <= stale_max_age for its key, a request
\* whose upstream call ends in Timeout is answered 504, and one that ends in
\* Transport, ServerError or Malformed is answered 502.
C14_TimeoutIs504OthersAre502 ==
  [][\A h \in Handlers :
       (/\ Completed(h)
        /\ Transient(upstream')
        /\ cache_get_stale(cache, req[h].key, now).data = NoData)
       => sent'.response.status = IF upstream'.kind = "timeout" THEN 504 ELSE 502]_vars

\* C15: one execution of the retry executor issues at most
\* RETRY_MAX_ATTEMPTS upstream requests and ends with the answer to the last
\* of them; the first request goes out at the instant of the call, and
\* after the failure of attempt k the executor sleeps base * 2^(k-1) before
\* attempt k + 1.
C15_RetrySchedule ==
  [][\A h \in Handlers :
       /\ req'[h].attempt <= RETRY_MAX_ATTEMPTS
       /\ Admitted(h)
          => (req'[h].attempt = 1 /\ req'[h].start_time = now /\ now' = now)
       /\ (Replied(h) /\ req'[h].pc = "sleeping")
          => /\ req[h].attempt < RETRY_MAX_ATTEMPTS
             /\ req'[h].attempt = req[h].attempt + 1
             /\ req'[h].wake_at - now = RETRY_BACKOFF_BASE * (2 ^ (req[h].attempt - 1))
       /\ (req[h].pc = "sleeping" /\ req'[h].pc # "sleeping")
          => /\ req'[h].pc = "fetching"
             /\ req'[h].attempt = req[h].attempt
             /\ now >= req[h].wake_at
       /\ (Replied(h) /\ req[h].attempt = RETRY_MAX_ATTEMPTS) => req'[h].pc = "idle"
       /\ Completed(h)
          => (sent'.attempts = req[h].attempt /\ sent'.attempts <= RETRY_MAX_ATTEMPTS)]_vars

\* A third attempt is in flight, base + 2 * base after the call was made
\* (no time went by but in the two sleeps).
C15_Witness ==
  \E h \in Handlers :
    /\ req[h].pc = "fetching"
    /\ req[h].attempt = RETRY_MAX_ATTEMPTS
    /\ now = req[h].wake_at
    /\ now - req[h].start_time = RETRY_BACKOFF_BASE + 2 * RETRY_BACKOFF_BASE

\* C16: every attempt after the first raises the retry_attempts counter by
\* one, and the retry_attempts of a successful response is the number of
\* retries made for its request.
C16_RetriesObservable ==
  [][\A h \in Handlers :
       /\ (req[h].pc = "sleeping" /\ req'[h].pc = "fetching")
          => metrics'.retry_attempts_total = metrics.retry_attempts_total + 1
       /\ (Completed(h) /\ sent'.raised = NoError)
          => sent'.response.metadata.retry_attempts = req[h].attempt - 1]_vars

\* C17: when the last of RETRY_MAX_ATTEMPTS attempts fails with a retryable
\* kind, the error that leaves the executor is the error of that attempt,
\* of the same class as the attempt raised it.
C17_LastErrorSurfacedUnchanged ==
  [][\A h \in Handlers :
       (/\ Completed(h)
        /\ req[h].attempt = RETRY_MAX_ATTEMPTS
        /\ Transient(upstream'))
       => sent'.raised.cls = fetch_weather_once(upstream').exc.cls]_vars

\* A request with a city was received in this step, and its cache key.
Received == started' = started + 1
ReceivedKey ==
  IF \E h \in Handlers : Admitted(h)
    THEN req'[CHOOSE h \in Handlers : Admitted(h)].key
    ELSE sent'.key
\* The request received was answered from the fresh lookup.
FreshHit == metrics'.cache_hits_total = metrics.cache_hits_total + 1

\* C18: the fresh lookup made for a request returns the payload of the
\* entry put at t0 under its key if and only if now - t0 <= ttl: the entry is
\* returned at t0 + ttl and at no later instant.
C18_FreshIffAgeWithinTtl ==
  [][Received
     => LET i == IndexOf(cache, ReceivedKey)
        IN /\ FreshHit <=> (i # 0 /\ now - cache[i].timestamp <= CACHE_TTL_SECONDS)
           /\ FreshHit
              => /\ sent'.response.status = 200
                 /\ sent'.response.data = cache[i].data
                 /\ sent'.response.data = cache_get(cache, ReceivedKey, now)
           /\ ~FreshHit => cache_get(cache, ReceivedKey, now) = NoData]_vars

\* A request was answered from the fresh lookup exactly ttl after the put,
\* and the next one, an instant later, missed the entry and went through the
\* breaker.
C18_Witness ==
  /\ sent.response.metadata.source = "cache"
  /\ sent.response.metadata.age_seconds = CACHE_TTL_SECONDS
  /\ metrics.cache_hits_total = 1
  /\ \E h \in Handlers :
       /\ req[h].pc = "fetching"
       /\ IndexOf(cache, req[h].key) # 0
       /\ req[h].start_time - cache[IndexOf(cache, req[h].key)].timestamp
            = CACHE_TTL_SECONDS + 1

\* C19: get_stale and get_with_metadata return the entry of a key if and
\* only if its age is <= stale_max_age, with cached = true, stale = (age >
\* ttl) and source = cache_fallback when stale, cache otherwise; no accessor
\* returns an entry older than stale_max_age, and no response carries one.
C19_StaleLookupWithinMaxAge ==
  /\ \A i \in 1..Len(cache) :
       LET age == now - cache[i].timestamp
           got == cache_get_stale(cache, cache[i].key, now)
           meta == cache_get_with_metadata(cache, cache[i].key, now)
       IN /\ meta = got
          /\ got.data # NoData <=> age <= STALE_CACHE_MAX_AGE_SECONDS
          /\ got.data # NoData
             => /\ got.data = cache[i].data
                /\ got.metadata.cached = TRUE
                /\ got.metadata.stale = (age > CACHE_TTL_SECONDS)
                /\ got.metadata.age_seconds = age
                /\ got.metadata.source
                     = IF age > CACHE_TTL_SECONDS THEN "cache_fallback" ELSE "cache"
          /\ got.data = NoData => got.metadata = NoMetadata
          /\ cache_get(cache, cache[i].key, now) # NoData
             => age <= STALE_CACHE_MAX_AGE_SECONDS
  /\ sent.response.metadata.cached
     => /\ sent.response.metadata.age_seconds <= STALE_CACHE_MAX_AGE_SECONDS
        /\ sent.response.metadata.stale
             = (sent.response.metadata.age_seconds > CACHE_TTL_SECONDS)
        /\ sent.response.metadata.source
             = IF sent.response.metadata.stale THEN "cache_fallback" ELSE "cache"

\* A request was answered from an entry exactly stale_max_age old, and the
\* entry, still held by the cache an instant later, is returned no more.
C19_Witness ==
  /\ sent.response.metadata.cached
  /\ sent.response.metadata.stale
  /\ sent.response.metadata.age_seconds = STALE_CACHE_MAX_AGE_SECONDS
  /\ IndexOf(cache, sent.key) # 0
  /\ now - cache[IndexOf(cache, sent.key)].timestamp > STALE_CACHE_MAX_AGE_SECONDS
  /\ cache_get_stale(cache, sent.key, now).data = NoData

\* A put for a key the cache does not hold arrived while it held maxsize
\* entries; the entry put is the last of the dict after it.
PutOfNewKeyWhenFull ==
  /\ Len(cache) = maxsize
  /\ cache' # cache
  /\ Len(cache') > 0
  /\ cache'[Len(cache')].key \notin Keys(cache)
  /\ cache'[Len(cache')].timestamp = now

Entries(c) == {c[i] : i \in 1..Len(c)}
Oldest(c) == {i \in 1..Len(c) : \A j \in 1..Len(c) : c[i].timestamp <= c[j].timestamp}

\* C20 as stated: the cache never holds more than maxsize entries, and a put
\* for a new key into a cache of maxsize entries removes the entry of the
\* smallest timestamp and no other.
C20_EvictsOldestOnly ==
  [][/\ Len(cache') <= maxsize
     /\ PutOfNewKeyWhenFull
        => \E i \in Oldest(cache) :
             Entries(cache') = {cache[j] : j \in (1..Len(cache)) \ {i}}
                                 \cup {cache'[Len(cache')]}]_vars

\* C20 amended: the cache never holds more than maxsize entries, and a put
\* for a new key into a cache of maxsize entries removes the entry of the
\* smallest timestamp (the first put of them, of several) and, of the
\* others, exactly those older than stale_max_age.
C20_EvictsOldestAndExpired ==
  [][/\ Len(cache') <= maxsize
     /\ PutOfNewKeyWhenFull
        => \E i \in Oldest(cache) :
             /\ \A j \in Oldest(cache) : i <= j
             /\ Entries(cache')
                  = {cache[j] : j \in {k \in (1..Len(cache)) \ {i} :
                                         now - cache[k].timestamp
                                           <= STALE_CACHE_MAX_AGE_SECONDS}}
                      \cup {cache'[Len(cache')]}]_vars

\* The put of a new key found the cache full and removed one entry, the
\* oldest: the cache holds maxsize entries again, all the others among them.
C20_Witness ==
  /\ Len(cache) = maxsize
  /\ Cardinality(removed) = 1
  /\ upstream.kind = "ok"
  /\ cache[Len(cache)].timestamp = now
  /\ \A i \in 1..(Len(cache) - 1) : cache[i].timestamp < now

\* C21: every request with a non-empty city raises the requests counter by
\* one, whether it is answered from the fresh lookup, rejected by the
\* breaker or sent to the upstream.
C21_EveryRequestCounted ==
  [][(Received /\ ReceivedKey # "")
     => metrics'.api_requests_total = metrics.api_requests_total + 1]_vars

\* The request of this step left get_weather: from the fresh lookup, from the
\* breaker's rejection, or with the verdict of its call through the breaker.
Exit == FreshHit \/ Rejected \/ \E h \in Handlers : Completed(h)

\* C22: the step in which a request leaves get_weather (fresh hit, upstream
\* success, breaker open or fetch error, each with or without a stale entry)
\* records one response time, and no other step records any.
C22_OneResponseTimePerExit ==
  [][/\ Exit => metrics'.response_times = metrics.response_times + 1
     /\ ~Exit => metrics'.response_times = metrics.response_times]_vars

\* Responses went out on a fresh hit, on an upstream success, on an upstream
\* error and on a rejection by the breaker, and each recorded its time.
C22_Witness ==
  /\ metrics.response_times = 4
  /\ started = 4
  /\ metrics.cache_hits_total = 1
  /\ breaker.successes = 1
  /\ metrics.errors_by_type["circuit_breaker_open"] = 1
  /\ metrics.api_errors_total = 2
  /\ \A h \in Handlers : req[h].pc = "idle"

\* C23: a request served from the fresh lookup carries the metadata cached
\* = true, stale = false, source = cache, retry_attempts = 0, whether or not
\* the clock advanced between the lookup and the making of the metadata.
C23_FreshHitMetadata ==
  [][FreshHit
     => /\ sent'.response.metadata.cached = TRUE
        /\ sent'.response.metadata.stale = FALSE
        /\ sent'.response.metadata.source = "cache"
        /\ "retry_attempts" \in DOMAIN sent'.response.metadata
        /\ sent'.response.metadata.retry_attempts = 0]_vars

C25_OpensCountedOnClosedToOpen ==
  [][IF breaker.state = "closed" /\ breaker'.state = "open"
       THEN metrics'.circuit_breaker_opens_total
              = metrics.circuit_breaker_opens_total + 1
       ELSE metrics'.circuit_breaker_opens_total
              = metrics.circuit_breaker_opens_total]_vars

\* The breaker opened, rejected a call, closed on a probe and opened again:
\* two transitions from Closed to Open, and the counter is 2.
C25_Witness ==
  /\ breaker.state = "open"
  /\ breaker.recent = <<FALSE, TRUE, FALSE>>
  /\ metrics.circuit_breaker_opens_total = 2
  /\ metrics.errors_by_type["circuit_breaker_open"] = 1

\* The task of handler h was cancelled in this step, at its upstream request
\* or in its backoff sleep.
Cancelled(h) ==
  /\ req[h].pc \in {"fetching", "sleeping"}
  /\ req'[h].pc = "idle"
  /\ upstream' = NoWire

\* C26: a call cancelled during its upstream request or its backoff sleep
\* leaves the breaker's state, opened_at, counters and ring as they were,
\* and makes no further attempt.
C26_CancelledCallLeavesNoVerdict ==
  [][\A h \in Handlers :
       Cancelled(h)
       => /\ breaker' = breaker
          /\ req'[h] = Idle
          /\ \A g \in Handlers \ {h} : req'[g] = req[g]
          /\ metrics' = metrics
          /\ cache' = cache]_vars

\* Two calls were admitted and both were cancelled, the later one after the
\* clock moved: neither left get_weather, and the breaker is still Closed
\* and empty of outcomes.
C26_Witness ==
  /\ started = 2
  /\ metrics.api_requests_total = 2
  /\ metrics.response_times = 0
  /\ \A h \in Handlers : req[h] = Idle
  /\ breaker = InitBreaker
  /\ now > 1

\* C27: nothing keeps two requests that both missed from both calling the
\* upstream. The cache holds at most one entry for a key; when a call
\* succeeds the entry of its key is the one it put, whole, whatever an
\* earlier call had put; and a fresh hit reads the data of the entry that is
\* in the cache, whole.
C27_LaterPutWins ==
  [][/\ \A i, j \in 1..Len(cache') : cache'[i].key = cache'[j].key => i = j
     /\ \A h \in Handlers :
          (Completed(h) /\ sent'.raised = NoError)
          => \E i \in 1..Len(cache') :
               cache'[i] = [key |-> req[h].key, data |-> upstream'.data,
                            timestamp |-> now]
     /\ FreshHit
          => \E i \in 1..Len(cache) :
               /\ cache[i].key = ReceivedKey
               /\ cache[i].data \in Payloads
               /\ sent'.response.data = cache[i].data]_vars

\* Two requests for the same city missed at the same time, both called the
\* upstream and both succeeded: the cache holds one entry, the one the
\* later of them put.
C27_Witness ==
  /\ now = 1
  /\ metrics.cache_misses_total = 2
  /\ metrics.cache_hits_total = 0
  /\ breaker.recent = <<TRUE, TRUE>>
  /\ Len(cache) = 1
  /\ sent.raised = NoError
  /\ cache[1].data = sent.response.data
  /\ \A h \in Handlers : req[h] = Idle

\* The sum of the per-type error counts.
RECURSIVE SumErrors(_, _)
SumErrors(by_type, types) ==
  IF types = {} THEN 0
  ELSE LET k == CHOOSE x \in types : TRUE
       IN by_type[k] + SumErrors(by_type, types \ {k})

\* The number of outcomes in the ring that equal ok.
Outcomes(recent, ok) == Cardinality({i \in 1..Len(recent) : recent[i] = ok})

\* The calls through the breaker that have not returned yet.
InFlight == Cardinality({h \in Handlers : req[h].pc # "idle"})

\* C28: whatever the interleaving of the handlers, no counter loses an
\* update: each equals the number of events it counts, as the breaker's
\* ring and the handlers in flight record them, and api_errors_total is the
\* sum of the per-type counts.
C28_NoLostUpdates ==
  /\ metrics.api_errors_total = SumErrors(metrics.errors_by_type, ErrorTypes)
  /\ metrics.api_requests_total = metrics.cache_misses_total
  /\ metrics.api_requests_total
       = Len(breaker.recent) + metrics.errors_by_type["circuit_breaker_open"]
         + InFlight
  /\ metrics.api_errors_total
       = Outcomes(breaker.recent, FALSE)
         + metrics.errors_by_type["circuit_breaker_open"]
  /\ metrics.response_times
       = metrics.cache_hits_total + Outcomes(breaker.recent, TRUE)
         + metrics.api_errors_total
  /\ metrics.cache_hits_total + metrics.cache_misses_total <= started
  /\ metrics.stale_cache_fallbacks_total <= metrics.api_errors_total
  /\ metrics.retry_attempts_total = 0
  /\ metrics.api_timeouts_total = 0

\* Two handlers ran interleaved: one call failed and was counted while the
\* other was in flight, a third was rejected, and errors of two types add up.
C28_Witness ==
  /\ InFlight = 1
  /\ metrics.api_requests_total = 3
  /\ metrics.api_errors_total = 2
  /\ metrics.errors_by_type["circuit_breaker_open"] = 1
  /\ metrics.errors_by_type["WeatherstackAuthError"] = 1
  /\ metrics.response_times = 2
  /\ now = 1

\* A put in this step was for a key the cache already held: the put key is
\* in the cache afterwards, so no key is new exactly when it was present.
PutOfPresentKey == upstream' # NoWire /\ cache' # cache /\ Keys(cache') \subseteq Keys(cache)

\* C29: a put for a key already in the cache replaces that key's entry and
\* removes the entry of no other key, also when the cache is full.
C29_PutOfPresentKeyRemovesNothing ==
  [][PutOfPresentKey
     => \E k \in Keys(cache) :
          /\ [key |-> k, data |-> upstream'.data, timestamp |-> now]
               \in Entries(cache')
          /\ \A e \in Entries(cache) : e.key # k => e \in Entries(cache')
          /\ removed' = {}]_vars

\* C30: the breaker records one outcome for each admitted call that runs to
\* its end, however many attempts the call made: the step in which the call
\* returns or raises appends one element to the ring and adds one to the
\* success counter or to the failure counter, not both; no other step, a
\* rejection among them, appends or counts anything.
C30_OneOutcomePerAdmittedCall ==
  [][IF \E h \in Handlers : Completed(h)
       THEN \/ /\ breaker'.recent = Append(breaker.recent, TRUE)
               /\ breaker'.successes = breaker.successes + 1
               /\ breaker'.failures
                    = IF breaker.state = "half_open" THEN 0 ELSE breaker.failures
               /\ sent'.raised = NoError
            \/ /\ breaker'.recent = Append(breaker.recent, FALSE)
               /\ breaker'.failures = breaker.failures + 1
               /\ breaker'.successes = breaker.successes
               /\ sent'.raised # NoError
       ELSE /\ breaker'.recent = breaker.recent
            /\ breaker'.successes = breaker.successes
            /\ breaker'.failures = breaker.failures]_vars

\* Two calls were admitted and one was rejected; one of the admitted calls
\* failed at its first attempt and the other at its third: the ring holds
\* two outcomes and the failure counter is 2.
C30_Witness ==
  /\ metrics.api_requests_total = 3
  /\ metrics.errors_by_type["circuit_breaker_open"] = 1
  /\ sent.attempts = RETRY_MAX_ATTEMPTS
  /\ sent.raised # NoError
  /\ breaker.recent = <<FALSE, FALSE>>
  /\ breaker.failures = 2
  /\ breaker.successes = 0
  /\ \A h \in Handlers : req[h] = Idle

\* C31: a call that was admitted while the breaker was Closed or HalfOpen
\* and reaches its verdict when the breaker is Open leaves the breaker Open
\* with the same opened_at: a late success does not close it, a late failure
\* does not restart the recovery window.
C31_LateVerdictLeavesOpenBreaker ==
  [][\A h \in Handlers :
       (Completed(h) /\ breaker.state = "open")
       => /\ breaker'.state = "open"
          /\ breaker'.opened_at = breaker.opened_at]_vars

\* Two calls were admitted by the Closed breaker; the failure of one opened
\* it at time 1, the other succeeded later: the breaker is still Open, since
\* time 1, with the success as its last outcome.
C31_Witness ==
  /\ breaker.state = "open"
  /\ breaker.opened_at = At(1)
  /\ breaker.recent = <<FALSE, TRUE>>
  /\ sent.raised = NoError
  /\ now > 1

\* The breaker is Open and its recovery timeout has passed, no call is in
\* flight, no entry of the cache is fresh, and a request can still arrive.
OpenAndRecoverable ==
  /\ breaker.state = "open"
  /\ Truthy(breaker.opened_at)
  /\ now - breaker.opened_at.at >= CIRCUIT_BREAKER_RECOVERY_TIMEOUT
  /\ \A h \in Handlers : req[h] = Idle
  /\ \A i \in 1..Len(cache) : now - cache[i].timestamp > CACHE_TTL_SECONDS
  /\ started < MaxRequests

\* C32: the breaker does not stay Open for ever: once the recovery timeout
\* has passed, with requests that miss the fresh cache still arriving and
\* the upstream succeeding, the first admission makes it HalfOpen and the
\* success of a call closes it.
C32_OpenBreakerCloses ==
  (OpenAndRecoverable \/ breaker.state = "half_open") ~> breaker.state = "closed"

\* The breaker opened on a failure and closed again on the success of the
\* probe it admitted after its recovery timeout.
C32_Witness ==
  /\ breaker.state = "closed"
  /\ breaker.opened_at = NoTime
  /\ breaker.recent = <<FALSE, TRUE>>
  /\ metrics.circuit_breaker_opens_total = 1
  /\ now >= 1 + CIRCUIT_BREAKER_RECOVERY_TIMEOUT

====
